---------------------------- MODULE Spec2Model ----------------------------
(***************************************************************************)
(* SafeScore: the risk-scoring core (app/engine/rules.py,                  *)
(* app/engine/scoring.py) and the pipeline that drives it (main.py).       *)
(*                                                                         *)
(* Strings are sequences of one-character strings, so that str.lower(),    *)
(* str.upper() and str.strip() are computed character by character.        *)
(* A timestamp is what datetime.fromisoformat makes of the text: either    *)
(* unparsable, or a wall-clock minute with an optional UTC offset.         *)
(***************************************************************************)
EXTENDS Integers, Sequences, FiniteSets, TLC

VARIABLES
    env,          \* os.environ as read by rules.py / main.py
    cli,          \* sys.argv (and ETH_MONITOR_ADDRESSES) as main parses them
    listsCsv,     \* blacklist.csv, watchlist.csv, sensitive_*.csv (address/token columns)
    weightsJson,  \* weights.json: the override document
    knownCsv,     \* known_addresses.csv: the address column, in file order
    txCsv,        \* transactions.csv: the rows, in file order
    pendingCsv,   \* pending_review.csv: the rows, in file order
    alerts,       \* the rows for which alerter.send was called, in order
    engine,       \* the ScoreEngine object: prev, known, ctx, weights
    seen,         \* main's seen set of tx_id
    pc,           \* where main is: "loop" (daemon, between ticks), "once" (before the
                  \* single run_once), "done" (the process has ended)
    lastOp,       \* the last step taken: "start", "tick", "crash" (score_transaction
                  \* raised), "write_failed" (a store write raised) or "interrupt"
    lastBatch,    \* of the batch the last run_once collected: how many transactions it
                  \* held, how many of them had a tx_id already in seen, and how many
                  \* had an empty or missing tx_id
    lastOut,      \* out_rows of the last run_once
    lastRet,      \* the pair the last run_once returned
    stx,          \* scoring session: the transaction handed to score_transaction
    sres,         \* scoring session: what score_transaction returned, with main's explain payload
    fin,          \* filter session: the arguments of filter_by_addresses
    fout          \* filter session: what filter_by_addresses returned

vars == <<env, cli, listsCsv, weightsJson, knownCsv, txCsv, pendingCsv, alerts,
          engine, seen, pc, lastOp, lastBatch, lastOut, lastRet, stx, sres, fin, fout>>

pipeVars == <<cli, knownCsv, txCsv, pendingCsv, alerts, seen, pc, lastOp,
              lastBatch, lastOut, lastRet>>

filterVars == <<fin, fout>>

-----------------------------------------------------------------------------
(* Python values *)

\* None, where a dict value may be missing or null: no string equals it.
None == <<"<None>">>

\* The empty string.
Empty == <<>>

\* The elements of a sequence.
Range(s) == {s[i] : i \in DOMAIN s}

UpperAlpha == <<"A","B","C","D","E","F","G","H","I","J","K","L","M",
                "N","O","P","Q","R","S","T","U","V","W","X","Y","Z">>

LowerAlpha == <<"a","b","c","d","e","f","g","h","i","j","k","l","m",
                "n","o","p","q","r","s","t","u","v","w","x","y","z">>

\* str.lower() and str.upper() of one character: the letters change, nothing else does.
ToLower == [c \in Range(UpperAlpha) |->
              LowerAlpha[CHOOSE k \in DOMAIN UpperAlpha : UpperAlpha[k] = c]]

ToUpper == [c \in Range(LowerAlpha) |->
              UpperAlpha[CHOOSE k \in DOMAIN LowerAlpha : LowerAlpha[k] = c]]

LowerChar(c) == IF c \in DOMAIN ToLower THEN ToLower[c] ELSE c

UpperChar(c) == IF c \in DOMAIN ToUpper THEN ToUpper[c] ELSE c

\* str.lower()
Lower(s) == [i \in 1..Len(s) |-> LowerChar(s[i])]

\* str.upper()
Upper(s) == [i \in 1..Len(s) |-> UpperChar(s[i])]

\* str.lstrip() / str.rstrip() / str.strip(): blanks off both ends.
RECURSIVE LStrip(_)
LStrip(s) == IF s # <<>> /\ Head(s) = " " THEN LStrip(Tail(s)) ELSE s

RECURSIVE RStrip(_)
RStrip(s) == IF s # <<>> /\ s[Len(s)] = " " THEN RStrip(SubSeq(s, 1, Len(s) - 1)) ELSE s

Strip(s) == RStrip(LStrip(s))

\* Python's `x or ""` for a value that is a string or None.
OrEmpty(x) == IF x = None \/ x = Empty THEN Empty ELSE x

\* sum() over the values of a dict (a function to integers).
RECURSIVE SumOver(_, _)
SumOver(f, keys) ==
    IF keys = {} THEN 0
    ELSE LET k == CHOOSE x \in keys : TRUE IN f[k] + SumOver(f, keys \ {k})

SumValues(f) == SumOver(f, DOMAIN f)

Max(a, b) == IF a >= b THEN a ELSE b

-----------------------------------------------------------------------------
(* Timestamps: datetime.fromisoformat(str(tx.get("timestamp"))) *)

\* A text fromisoformat rejects (also str(None)).
BadTs == [ok |-> FALSE, local |-> 0, tz |-> FALSE, off |-> 0]

\* A text it accepts: wall-clock minute `local`, with a UTC offset of `off` minutes when tz.
Ts(local, tz, off) == [ok |-> TRUE, local |-> local, tz |-> tz, off |-> off]

\* A naive wall-clock minute, and the same with an explicit +00:00.
Naive(m) == Ts(m, FALSE, 0)
Utc(m) == Ts(m, TRUE, 0)

\* `if ts.utcoffset() is None: ts = ts.replace(tzinfo=timezone.utc)`, then the instant
\* the aware datetime denotes, in minutes.
Instant(ts) == IF ts.tz THEN ts.local - ts.off ELSE ts.local

\* ts.astimezone(timezone.utc).hour
UtcHour(ts) == (Instant(ts) \div 60) % 24

-----------------------------------------------------------------------------
(* Configuration read from the environment *)

\* An environment variable: not set, a number, or text that is no number.
Unset == [kind |-> "unset", val |-> 0]
EnvNum(n) == [kind |-> "num", val |-> n]
EnvBad == [kind |-> "bad", val |-> 0]

\* get_env_int(name, default): int(os.getenv(name, str(default))), the default on any error.
get_env_int(v, default) == IF v.kind = "num" THEN v.val ELSE default

\* Defaults written in the source.
DefaultAmountThreshold == 10000
DefaultVelocityWindowMin == 10
DefaultVelocityMaxTx == 5
DefaultScoreAlertThreshold == 50

-----------------------------------------------------------------------------
(* rules.py *)

RuleNames == {"blacklist", "watchlist", "high_amount", "unusual_hour",
              "new_address", "velocity", "sensitive_token", "sensitive_method"}

DEFAULT_WEIGHTS ==
    [n \in RuleNames |->
        CASE n = "blacklist" -> 60
          [] n = "watchlist" -> 30
          [] n = "high_amount" -> 25
          [] n = "unusual_hour" -> 15
          [] n = "new_address" -> 40
          [] n = "velocity" -> 20
          [] n = "sensitive_token" -> 15
          [] n = "sensitive_method" -> 15]

\* The evaluation order of the rules.
ORDER == <<"blacklist", "watchlist", "high_amount", "unusual_hour",
           "new_address", "velocity", "sensitive_token", "sensitive_method">>

\* What a rule returns: (fired, reason), or an exception that leaves the rule.
\* A reason is <<text, n, m>>: the text and the numbers formatted into it.
NoReason == <<"", 0, 0>>
NotFired == [fired |-> FALSE, reason |-> NoReason, exc |-> FALSE]
Fired(reason) == [fired |-> TRUE, reason |-> reason, exc |-> FALSE]
Raised == [fired |-> FALSE, reason |-> NoReason, exc |-> TRUE]

\* _load_set: the stripped, lower-cased cells of a column; empty and missing cells skipped.
load_set(col) == {Lower(Strip(c)) : c \in {x \in Range(col) : x # None /\ x # Empty}}

\* carregar_contexto: the history with from_address lower-cased, the four lists, the
\* known addresses lower-cased.
carregar_contexto(lists, prev, known) ==
    [blacklist |-> load_set(lists.blacklist),
     watchlist |-> load_set(lists.watchlist),
     sensitive_tokens |-> load_set(lists.sensitive_tokens),
     sensitive_methods |-> load_set(lists.sensitive_methods),
     known_addresses |-> {Lower(a) : a \in known},
     prev_transactions |->
        [i \in 1..Len(prev) |->
            [from_address |-> Lower(OrEmpty(prev[i].from_address)),
             timestamp |-> prev[i].timestamp]]]

\* `x.lower() in s` for a value that may be None: None has no lower().
\* The two operands of `or` are evaluated left to right; the right one only if the left is false.
AddrRule(tx, s, text) ==
    IF tx.from_address = None THEN Raised
    ELSE IF Lower(tx.from_address) \in s THEN Fired(<<text, 0, 0>>)
    ELSE IF tx.to_address = None THEN Raised
    ELSE IF Lower(tx.to_address) \in s THEN Fired(<<text, 0, 0>>)
    ELSE NotFired

rule_blacklist(tx, ctx, e) == AddrRule(tx, ctx.blacklist, "Endereco em blacklist")

rule_watchlist(tx, ctx, e) == AddrRule(tx, ctx.watchlist, "Endereco em watchlist")

\* rule_high_amount with val > thr in place of val >= thr: what C8 would not survive.
rule_high_amount_StrictThreshold(tx, ctx, e) ==
    IF e.AMOUNT_THRESHOLD.kind = "bad" THEN Raised
    ELSE LET thr == IF e.AMOUNT_THRESHOLD.kind = "num" THEN e.AMOUNT_THRESHOLD.val
                    ELSE DefaultAmountThreshold
             val == IF tx.amount.ok THEN tx.amount.val ELSE 0
         IN IF val > thr THEN Fired(<<"Valor alto (>= thr)", thr, 0>>) ELSE NotFired

\* float(os.getenv("AMOUNT_THRESHOLD","10000")) is outside the try; float(amount) inside.
rule_high_amount(tx, ctx, e) ==
    IF e.AMOUNT_THRESHOLD.kind = "bad" THEN Raised
    ELSE LET thr == IF e.AMOUNT_THRESHOLD.kind = "num" THEN e.AMOUNT_THRESHOLD.val
                    ELSE DefaultAmountThreshold
             val == IF tx.amount.ok THEN tx.amount.val ELSE 0
         IN IF val >= thr THEN Fired(<<"Valor alto (>= thr)", thr, 0>>) ELSE NotFired

\* rule_unusual_hour taking an unparsable timestamp for midnight: what C17 would not survive.
rule_unusual_hour_BadTsIsNight(tx, ctx, e) ==
    IF ~tx.timestamp.ok THEN Fired(<<"Horario incomum (madrugada UTC)", 0, 0>>)
    ELSE IF UtcHour(tx.timestamp) \in {0, 1, 2, 3, 4, 5}
         THEN Fired(<<"Horario incomum (madrugada UTC)", 0, 0>>)
         ELSE NotFired

rule_unusual_hour(tx, ctx, e) ==
    IF ~tx.timestamp.ok THEN NotFired
    ELSE IF UtcHour(tx.timestamp) \in {0, 1, 2, 3, 4, 5}
         THEN Fired(<<"Horario incomum (madrugada UTC)", 0, 0>>)
         ELSE NotFired

\* rule_new_address without the lower-casing of the sender: what C7 would not survive.
rule_new_address_CaseSensitive(tx, ctx, e) ==
    LET de == OrEmpty(tx.from_address)
    IN IF de # Empty /\ de \notin ctx.known_addresses
       THEN Fired(<<"Endereco remetente nao conhecido", 0, 0>>)
       ELSE NotFired

rule_new_address(tx, ctx, e) ==
    LET de == Lower(OrEmpty(tx.from_address))
    IN IF de # Empty /\ de \notin ctx.known_addresses
       THEN Fired(<<"Endereco remetente nao conhecido", 0, 0>>)
       ELSE NotFired

\* The loop of rule_velocity: cnt after the first k history entries.
RECURSIVE velocity_count(_, _, _, _, _)
velocity_count(prev, k, de, ini, ts) ==
    IF k = 0 THEN 0
    ELSE LET r == prev[k]
             rest == velocity_count(prev, k - 1, de, ini, ts)
         IN IF ~r.timestamp.ok THEN rest
            ELSE IF r.from_address = de /\ ini <= Instant(r.timestamp)
                                        /\ Instant(r.timestamp) <= ts
                 THEN rest + 1
                 ELSE rest

\* rule_velocity with cnt > mx in place of cnt >= mx: what C5 would not survive.
rule_velocity_StrictMax(tx, ctx, e) ==
    IF ~tx.timestamp.ok THEN NotFired
    ELSE LET ts == Instant(tx.timestamp)
             jan == get_env_int(e.VELOCITY_WINDOW_MIN, DefaultVelocityWindowMin)
             mx == get_env_int(e.VELOCITY_MAX_TX, DefaultVelocityMaxTx)
             de == Lower(OrEmpty(tx.from_address))
             ini == ts - jan
             cnt == velocity_count(ctx.prev_transactions, Len(ctx.prev_transactions),
                                   de, ini, ts)
         IN IF cnt > mx THEN Fired(<<"Alta velocidade (cnt tx em jan min)", cnt, jan>>)
            ELSE NotFired

rule_velocity(tx, ctx, e) ==
    IF ~tx.timestamp.ok THEN NotFired
    ELSE LET ts == Instant(tx.timestamp)
             jan == get_env_int(e.VELOCITY_WINDOW_MIN, DefaultVelocityWindowMin)
             mx == get_env_int(e.VELOCITY_MAX_TX, DefaultVelocityMaxTx)
             de == Lower(OrEmpty(tx.from_address))
             ini == ts - jan
             cnt == velocity_count(ctx.prev_transactions, Len(ctx.prev_transactions),
                                   de, ini, ts)
         IN IF cnt >= mx THEN Fired(<<"Alta velocidade (cnt tx em jan min)", cnt, jan>>)
            ELSE NotFired

rule_sensitive_token(tx, ctx, e) ==
    IF tx.token = None THEN Raised
    ELSE IF Upper(tx.token) \in {Upper(t) : t \in ctx.sensitive_tokens}
         THEN Fired(<<"Token sensivel", 0, 0>>)
         ELSE NotFired

rule_sensitive_method(tx, ctx, e) ==
    IF tx.method = None THEN Raised
    ELSE IF Upper(tx.method) \in {Upper(m) : m \in ctx.sensitive_methods}
         THEN Fired(<<"Metodo sensivel", 0, 0>>)
         ELSE NotFired

\* ORDER's function for a rule name.
RuleFn(name, tx, ctx, e) ==
    CASE name = "blacklist" -> rule_blacklist(tx, ctx, e)
      [] name = "watchlist" -> rule_watchlist(tx, ctx, e)
      [] name = "high_amount" -> rule_high_amount(tx, ctx, e)
      [] name = "unusual_hour" -> rule_unusual_hour(tx, ctx, e)
      [] name = "new_address" -> rule_new_address(tx, ctx, e)
      [] name = "velocity" -> rule_velocity(tx, ctx, e)
      [] name = "sensitive_token" -> rule_sensitive_token(tx, ctx, e)
      [] name = "sensitive_method" -> rule_sensitive_method(tx, ctx, e)

-----------------------------------------------------------------------------
(* scoring.py *)

\* A JSON value of weights.json: an integer, or text that int() rejects.
JInt(n) == [t |-> "int", v |-> n]
JText == [t |-> "text", v |-> 0]

\* weights.json: no file, a file json.loads rejects, or an object of name -> value.
NoFile == [kind |-> "absent", map |-> <<>>]
InvalidJson == [kind |-> "invalid", map |-> <<>>]
JsonObject(m) == [kind |-> "object", map |-> m]

\* The weights without the update() from weights.json: what C23 would not survive.
load_weights_DefaultsOnly(doc) == [n \in RuleNames |-> JInt(DEFAULT_WEIGHTS[n])]

\* self.weights after __init__: dict(DEFAULT_WEIGHTS), then update() with the parsed
\* document; a document that does not parse leaves the defaults.
load_weights(doc) ==
    IF doc.kind = "object"
    THEN [n \in RuleNames \cup DOMAIN doc.map |->
            IF n \in DOMAIN doc.map THEN doc.map[n] ELSE JInt(DEFAULT_WEIGHTS[n])]
    ELSE [n \in RuleNames |-> JInt(DEFAULT_WEIGHTS[n])]

\* ScoreEngine.__init__
ScoreEngine(lists, doc, prev_transactions, known_addresses) ==
    [prev |-> prev_transactions,
     known |-> known_addresses,
     ctx |-> carregar_contexto(lists, prev_transactions, known_addresses),
     weights |-> load_weights(doc)]

\* The accumulators of score_transaction before the loop.
ScoreStart == [hits |-> <<>>, reasons |-> <<>>, vel_info |-> 0, raised |-> FALSE]

\* hits[name] = peso
SetHit(hits, name, peso) ==
    [n \in DOMAIN hits \cup {name} |-> IF n = name THEN peso ELSE hits[n]]

\* The loop body without the try/except around the rule: what C13 would not survive.
ScoreStep_NoCatch(acc, name, tx, eng, e) ==
    LET r == RuleFn(name, tx, eng.ctx, e)
        w == eng.weights[name]
    IN IF acc.raised THEN acc
       ELSE IF r.exc THEN [acc EXCEPT !.raised = TRUE]
       ELSE IF ~r.fired THEN acc
       ELSE IF w.t # "int" THEN [acc EXCEPT !.raised = TRUE]
       ELSE [hits |-> IF w.v > 0 THEN SetHit(acc.hits, name, w.v) ELSE acc.hits,
             reasons |-> IF r.reason[1] # "" THEN Append(acc.reasons, r.reason)
                         ELSE acc.reasons,
             vel_info |-> IF name = "velocity" THEN acc.vel_info + 1 ELSE acc.vel_info,
             raised |-> FALSE]

\* The loop body with `peso >= 0` in place of `peso > 0`: what C15 would not survive.
ScoreStep_ZeroWeightHits(acc, name, tx, eng, e) ==
    LET r == RuleFn(name, tx, eng.ctx, e)
        fired == IF r.exc THEN FALSE ELSE r.fired
        reason == IF r.exc THEN NoReason ELSE r.reason
        w == eng.weights[name]
    IN IF acc.raised \/ ~fired THEN acc
       ELSE IF w.t # "int" THEN [acc EXCEPT !.raised = TRUE]
       ELSE [hits |-> IF w.v >= 0 THEN SetHit(acc.hits, name, w.v) ELSE acc.hits,
             reasons |-> IF reason[1] # "" THEN Append(acc.reasons, reason) ELSE acc.reasons,
             vel_info |-> IF name = "velocity" THEN acc.vel_info + 1 ELSE acc.vel_info,
             raised |-> FALSE]

\* One iteration of the loop over ORDER. An exception of the rule is caught and counts
\* as (False, ""); int(peso) is outside the try.
ScoreStep(acc, name, tx, eng, e) ==
    LET r == RuleFn(name, tx, eng.ctx, e)
        fired == IF r.exc THEN FALSE ELSE r.fired
        reason == IF r.exc THEN NoReason ELSE r.reason
        w == eng.weights[name]
    IN IF acc.raised \/ ~fired THEN acc
       ELSE IF w.t # "int" THEN [acc EXCEPT !.raised = TRUE]
       ELSE [hits |-> IF w.v > 0 THEN SetHit(acc.hits, name, w.v) ELSE acc.hits,
             reasons |-> IF reason[1] # "" THEN Append(acc.reasons, reason) ELSE acc.reasons,
             vel_info |-> IF name = "velocity" THEN acc.vel_info + 1 ELSE acc.vel_info,
             raised |-> FALSE]

\* The loop over ORDER[1..k].
RECURSIVE ScoreLoop(_, _, _, _)
ScoreLoop(k, tx, eng, e) ==
    IF k = 0 THEN ScoreStart
    ELSE ScoreStep(ScoreLoop(k - 1, tx, eng, e), ORDER[k], tx, eng, e)

\* score_transaction without the max(0, ...) floor: what C1 would not survive.
score_transaction_NoFloor(eng, tx, e) ==
    LET acc == ScoreLoop(Len(ORDER), tx, eng, e)
        penalty == SumValues(acc.hits)
    IN IF acc.raised
       THEN [raised |-> TRUE, score |-> 0, reasons |-> <<>>, hits |-> <<>>,
             velocity_last_window |-> 0]
       ELSE [raised |-> FALSE,
             score |-> 100 - penalty,
             reasons |-> acc.reasons,
             hits |-> acc.hits,
             velocity_last_window |-> acc.vel_info]

\* ScoreEngine.score_transaction: the returned dict, or raised when an exception leaves it.
score_transaction(eng, tx, e) ==
    LET acc == ScoreLoop(Len(ORDER), tx, eng, e)
        penalty == SumValues(acc.hits)
    IN IF acc.raised
       THEN [raised |-> TRUE, score |-> 0, reasons |-> <<>>, hits |-> <<>>,
             velocity_last_window |-> 0]
       ELSE [raised |-> FALSE,
             score |-> Max(0, 100 - penalty),
             reasons |-> acc.reasons,
             hits |-> acc.hits,
             velocity_last_window |-> acc.vel_info]

-----------------------------------------------------------------------------
(* main.py: the explanation payload of run_once *)

\* A rounding that truncates to the tenth below: what C6 would not survive.
RoundTenths_Truncate(v, total) == {(1000 * v) \div total}

\* round((v / penalty_total) * 100, 1), in tenths of a percent. Off a tie the nearest
\* tenth; on an exact tie (x.x5) the float that v / total * 100 produces decides, so
\* either neighbour is possible.
RoundTenths(v, total) ==
    LET q == (1000 * v) \div total
        r == (1000 * v) % total
    IN IF 2 * r < total THEN {q}
       ELSE IF 2 * r > total THEN {q + 1}
       ELSE {q, q + 1}

\* The contrib_pct dicts run_once can compute for hits: {} when penalty_total is 0.
contrib_pct(hits) ==
    LET total == SumValues(hits)
        ties == {k \in DOMAIN hits : Cardinality(RoundTenths(hits[k], total)) = 2}
    IN IF total > 0
       THEN {[k \in DOMAIN hits |->
                LET c == RoundTenths(hits[k], total)
                    lo == CHOOSE x \in c : \A y \in c : x <= y
                IN IF k \in up THEN lo + 1 ELSE lo] : up \in SUBSET ties}
       ELSE {<<>>}

-----------------------------------------------------------------------------
(* main.py: the durable stores *)

\* read_known_addresses: the stripped, lower-cased address cells that are not empty.
read_known_addresses(csv) ==
    {Lower(Strip(c)) : c \in {x \in Range(csv) : x # None /\ x # Empty}}

\* append_known_address: nothing for an address that strips to "" or that the file
\* already holds; otherwise one more row.
append_known_address(csv, addr) ==
    LET a == Lower(Strip(OrEmpty(addr)))
    IN IF a = Empty THEN csv
       ELSE IF a \in read_known_addresses(csv) THEN csv
       ELSE Append(csv, a)

\* read_prev_transactions: the rows of transactions.csv, in file order.
read_prev_transactions(csv) == csv

\* load_seen_tx_ids: the tx_id cell of every row of transactions.csv.
load_seen_tx_ids(csv) == {csv[i].tx_id : i \in DOMAIN csv}

\* A write that stores the first row only: what C21 would not survive.
write_rows_FirstRowOnly(csv, rows) ==
    IF rows = <<>> THEN csv ELSE Append(csv, rows[1])

\* write_transactions / append_pending: the rows appended in order (nothing for no rows).
write_rows(csv, rows) == csv \o rows

-----------------------------------------------------------------------------
(* main.py: run_once *)

\* The command line: --daemon, --require-match, --monitor-watchlist and the addresses of
\* --monitor-addresses / ETH_MONITOR_ADDRESSES, split at the commas.
Cli(daemon, require_match, monitor_watchlist, monitor_addresses) ==
    [daemon |-> daemon, require_match |-> require_match,
     monitor_watchlist |-> monitor_watchlist, monitor_addresses |-> monitor_addresses]

\* load_watch_addresses: the watchlist.csv addresses when asked for, and the extra ones,
\* stripped and lower-cased, the empty ones dropped.
load_watch_addresses(from_watchlist, watchlistCol, extra) ==
    (IF from_watchlist
     THEN {Lower(Strip(OrEmpty(c))) : c \in Range(watchlistCol)} \ {Empty}
     ELSE {})
    \cup ({Lower(Strip(x)) : x \in Range(extra)} \ {Empty})

\* What is kept of a collected batch.
BatchInfo(batch, seenIds) ==
    [size |-> Len(batch),
     replayed |-> Cardinality({i \in DOMAIN batch : batch[i].tx_id \in seenIds}),
     unidentified |-> Cardinality({i \in DOMAIN batch : batch[i].tx_id \in {None, Empty}})]

NoBatch == [size |-> 0, replayed |-> 0, unidentified |-> 0]

\* filter_by_addresses looking at the sender only: what C12 would not survive.
filter_by_addresses_SenderOnly(txs, watch, require_match) ==
    IF ~require_match \/ watch = {} THEN txs
    ELSE SelectSeq(txs, LAMBDA tx : Lower(OrEmpty(tx.from_address)) \in watch)

\* filter_by_addresses
filter_by_addresses(txs, watch, require_match) ==
    IF ~require_match \/ watch = {} THEN txs
    ELSE SelectSeq(txs, LAMBDA tx :
            \/ Lower(OrEmpty(tx.from_address)) \in watch
            \/ Lower(OrEmpty(tx.to_address)) \in watch)

\* Step 3 of run_once without the look-up in seen: what C2 would not survive.
dedup_IgnoringSeen(txs, seenIds) ==
    SelectSeq(txs, LAMBDA t : t.tx_id # None /\ t.tx_id # Empty)

\* Step 3 of run_once without the test `t.get("tx_id")`: what C22 would not survive.
dedup_KeepingUnidentified(txs, seenIds) ==
    SelectSeq(txs, LAMBDA t : t.tx_id \notin seenIds)

\* Step 3 of run_once: the transactions with a tx_id that is not in seen.
dedup(txs, seenIds) ==
    SelectSeq(txs, LAMBDA t : t.tx_id # None /\ t.tx_id # Empty /\ t.tx_id \notin seenIds)

\* int(os.getenv("SCORE_ALERT_THRESHOLD", "50")), 50 on any error.
limiar(e) == get_env_int(e.SCORE_ALERT_THRESHOLD, DefaultScoreAlertThreshold)

\* The row run_once builds for a scored transaction (chain is the constant chain label).
make_row(tx, scored, cp) ==
    [tx_id |-> OrEmpty(tx.tx_id),
     timestamp |-> tx.timestamp,
     from_address |-> Lower(OrEmpty(tx.from_address)),
     to_address |-> Lower(OrEmpty(tx.to_address)),
     amount |-> tx.amount,
     token |-> tx.token,
     method |-> tx.method,
     is_new_address |-> IF "new_address" \in DOMAIN scored.hits THEN "yes" ELSE "no",
     velocity_last_window |-> scored.velocity_last_window,
     score |-> scored.score,
     penalty_total |-> SumValues(scored.hits),
     reasons |-> scored.reasons,
     explain |-> [weights |-> scored.hits, contrib_pct |-> cp]]

\* The text handed to alerter.send, as the fields formatted into it.
alert_msg(row, lim) ==
    [tx_id |-> row.tx_id, score |-> row.score, limiar |-> lim,
     from_address |-> row.from_address, to_address |-> row.to_address,
     amount |-> row.amount, token |-> row.token, reasons |-> row.reasons]

\* The state of the loop `for tx in txs` before its first iteration.
LoopStart(known, sent) ==
    [out_rows |-> <<>>, pendings |-> <<>>, known |-> known, alerts |-> sent,
     raised |-> FALSE]

\* The loop body with every row treated as critical: what C11 would not survive.
LoopStep_AllCritical(acc, tx, scored, cp, e) ==
    IF acc.raised THEN acc
    ELSE IF scored.raised THEN [acc EXCEPT !.raised = TRUE]
    ELSE LET row == make_row(tx, scored, cp)
         IN [out_rows |-> Append(acc.out_rows, row),
             pendings |-> Append(acc.pendings, row),
             known |-> IF "new_address" \in DOMAIN scored.hits
                       THEN append_known_address(acc.known, tx.from_address)
                       ELSE acc.known,
             alerts |-> Append(acc.alerts, alert_msg(row, limiar(e))),
             raised |-> FALSE]

\* One iteration of the loop for tx, with cp the contrib_pct computed: the row, the
\* known-address write, the pending row and the alert. An exception of
\* score_transaction leaves the loop and run_once.
LoopStep(acc, tx, scored, cp, e) ==
    IF acc.raised THEN acc
    ELSE IF scored.raised THEN [acc EXCEPT !.raised = TRUE]
    ELSE LET row == make_row(tx, scored, cp)
             critical == row.score < limiar(e)
         IN [out_rows |-> Append(acc.out_rows, row),
             pendings |-> IF critical THEN Append(acc.pendings, row) ELSE acc.pendings,
             known |-> IF "new_address" \in DOMAIN scored.hits
                       THEN append_known_address(acc.known, tx.from_address)
                       ELSE acc.known,
             alerts |-> IF critical THEN Append(acc.alerts, alert_msg(row, limiar(e)))
                        ELSE acc.alerts,
             raised |-> FALSE]

\* The loop with the context's known addresses re-read from the store before every
\* transaction: what C20 would not survive.
RECURSIVE Loop_RefreshingContext(_, _, _, _, _)
Loop_RefreshingContext(txs, k, eng, e, start) ==
    IF k = 0 THEN {start}
    ELSE UNION {
            LET fresh == [eng EXCEPT !.ctx.known_addresses = read_known_addresses(acc.known)]
                scored == score_transaction(fresh, txs[k], e)
            IN {LoopStep(acc, txs[k], scored, cp, e) : cp \in contrib_pct(scored.hits)} :
            acc \in Loop_RefreshingContext(txs, k - 1, eng, e, start)}

\* The states the loop can be in after txs[1..k]: one for every way the ties of
\* contrib_pct can fall.
RECURSIVE Loop(_, _, _, _, _)
Loop(txs, k, eng, e, start) ==
    IF k = 0 THEN {start}
    ELSE LET scored == score_transaction(eng, txs[k], e)
         IN {LoopStep(acc, txs[k], scored, cp, e) :
                acc \in Loop(txs, k - 1, eng, e, start), cp \in contrib_pct(scored.hits)}

-----------------------------------------------------------------------------
(* Values the model draws its inputs from *)

\* Addresses, tokens and methods, as character sequences.
a_ == <<"a">>
A_ == <<"A">>
b_ == <<"b">>
w_ == <<"w">>
x_ == <<"x">>
z_ == <<"z">>
pad_a == <<" ", "a">>
blank == <<" ">>
USDT == <<"U", "S", "D", "T">>
usdt == <<"u", "s", "d", "t">>
DAI == <<"D", "A", "I">>
APPROVE == <<"A", "P", "P", "R", "O", "V", "E">>
approve == <<"a", "p", "p", "r", "o", "v", "e">>
TRANSFER == <<"T", "R", "A", "N", "S", "F", "E", "R">>

\* An amount: a number, or a value float() rejects.
Amt(n) == [ok |-> TRUE, val |-> n]
BadAmt == [ok |-> FALSE, val |-> 0]

\* A collected transaction (the chain label is not read by the core).
Tx(id, ts, fr, to, amount, token, method) ==
    [tx_id |-> id, timestamp |-> ts, from_address |-> fr, to_address |-> to,
     amount |-> amount, token |-> token, method |-> method]

\* No transaction yet, and no result yet.
NoTx == Tx(None, BadTs, None, None, BadAmt, None, None)
NoRes == [done |-> FALSE, raised |-> FALSE, score |-> 0, reasons |-> <<>>, hits |-> <<>>,
          velocity_last_window |-> 0, penalty_total |-> 0, contrib_pct |-> <<>>]

\* The reference lists of the scoring sessions: the four CSV columns.
Lists(bl, wl, tok, met) ==
    [blacklist |-> bl, watchlist |-> wl, sensitive_tokens |-> tok, sensitive_methods |-> met]

ScoreLists ==
    {Lists(<<x_>>, <<w_>>, <<USDT>>, <<APPROVE>>),
     Lists(<<>>, <<>>, <<None>>, <<None>>)}

\* The environments: nothing set, and a velocity rule of 1 transaction in 1 minute with
\* a lower amount threshold.
Env(thr, win, mx, alert) ==
    [AMOUNT_THRESHOLD |-> thr, VELOCITY_WINDOW_MIN |-> win, VELOCITY_MAX_TX |-> mx,
     SCORE_ALERT_THRESHOLD |-> alert]

DefaultEnv == Env(Unset, Unset, Unset, Unset)

ScoreEnvs == {DefaultEnv, Env(EnvNum(20000), EnvNum(1), EnvNum(1), Unset)}

\* Weight override documents: none, unparsable, and objects. SkewedWeights makes seven
\* rules share a total of 19; ZeroWeights switches two rules off and names an unknown rule.
SkewedWeights ==
    [n \in RuleNames |->
        IF n \in {"blacklist", "watchlist", "high_amount", "unusual_hour"}
        THEN JInt(4) ELSE JInt(1)]

ZeroWeights ==
    [n \in {"new_address", "high_amount", "velocity", "no_such_rule"} |->
        CASE n = "new_address" -> JInt(0)
          [] n = "high_amount" -> JInt(-5)
          [] n = "velocity" -> JInt(200)
          [] n = "no_such_rule" -> JInt(99)]

ScoreWeightDocs ==
    {NoFile, InvalidJson, JsonObject(SkewedWeights), JsonObject(ZeroWeights)}

\* A history row as the rules read it.
Hist(fr, ts) == [from_address |-> fr, timestamp |-> ts]

\* hh:mm as the minute of the day.
HM(h, m) == 60 * h + m

ScorePrevs == {<<>>, <<Hist(b_, Utc(HM(3, 0))), Hist(A_, Utc(HM(12, 0)))>>}

ScoreKnowns == {{a_}}

ScoreTimestamps ==
    {BadTs, Utc(HM(3, 0)), Naive(HM(5, 59)), Utc(HM(6, 0)), Utc(HM(12, 0)),
     Ts(HM(7, 0), TRUE, 120)}

ScoreTxs ==
    {Tx(<<"t">>, ts, fr, to, am, tok, met) :
        ts \in ScoreTimestamps,
        fr \in {None, Empty, a_, A_, b_, w_, pad_a},
        to \in {None, z_, x_},
        am \in {Amt(9999), Amt(10000), Amt(20000), BadAmt},
        tok \in {USDT, usdt, DAI},
        met \in {APPROVE, TRANSFER}}

-----------------------------------------------------------------------------
(* A scoring session: an engine is built and scores one transaction, as the tests do *)

\* scored = engine.score_transaction(tx), then lines 263-266 of run_once.
Explain(scored, cp) ==
    [done |-> TRUE, raised |-> scored.raised, score |-> scored.score,
     reasons |-> scored.reasons, hits |-> scored.hits,
     velocity_last_window |-> scored.velocity_last_window,
     penalty_total |-> SumValues(scored.hits), contrib_pct |-> cp]

ScoreOne(tx) ==
    /\ LET scored == score_transaction(engine, tx, env)
       IN \E cp \in contrib_pct(scored.hits) :
            /\ stx' = tx
            /\ sres' = Explain(scored, cp)
    /\ UNCHANGED <<env, listsCsv, weightsJson, engine>>
    /\ UNCHANGED pipeVars
    /\ UNCHANGED filterVars

\* No call of filter_by_addresses is under study.
NoFilterIn == [txs |-> <<>>, watch |-> {}, require_match |-> FALSE]
NoFilterOut == [done |-> FALSE, out |-> <<>>]
IdleFilter == fin = NoFilterIn /\ fout = NoFilterOut

IdlePipe ==
    /\ knownCsv = <<>>
    /\ txCsv = <<>>
    /\ pendingCsv = <<>>
    /\ alerts = <<>>
    /\ seen = {}
    /\ pc = "session"
    /\ lastOp = "start"
    /\ cli = Cli(FALSE, FALSE, FALSE, <<>>)
    /\ lastBatch = NoBatch
    /\ lastOut = <<>>
    /\ lastRet = <<0, 0>>

InitScore ==
    /\ env \in ScoreEnvs
    /\ listsCsv \in ScoreLists
    /\ weightsJson \in ScoreWeightDocs
    /\ \E prev \in ScorePrevs, known \in ScoreKnowns :
            engine = ScoreEngine(listsCsv, weightsJson, prev, known)
    /\ stx = NoTx
    /\ sres = NoRes
    /\ IdlePipe
    /\ IdleFilter

\* One transaction per session.
NextScore == ~sres.done /\ \E tx \in ScoreTxs : ScoreOne(tx)

SpecScore == InitScore /\ [][NextScore]_vars

-----------------------------------------------------------------------------
(* The pipeline: main and its ticks *)

\* The batches a collector can return: up to MaxBatch transactions of the pool, in any
\* order, repeats included.
MaxBatch == 2

\* Four collected transactions: two of one sender (written b and B) a minute apart, the
\* second one large and sensitive; one whose sender carries a leading blank; one with an
\* empty tx_id.
PipeTxs ==
    {Tx(<<"1">>, Utc(HM(12, 0)), b_, z_, Amt(10), DAI, TRANSFER),
     Tx(<<"2">>, Utc(HM(12, 1)), <<"B">>, z_, Amt(20000), USDT, APPROVE),
     Tx(<<"3">>, Utc(HM(12, 2)), <<" ", "b">>, z_, Amt(10), DAI, TRANSFER),
     Tx(Empty, Utc(HM(12, 3)), b_, z_, Amt(10), DAI, TRANSFER)}

Batches == UNION {[1..n -> PipeTxs] : n \in 0..MaxBatch}

PipeEnvs == {Env(Unset, Unset, EnvNum(1), Unset)}

PipeLists == {Lists(<<>>, <<>>, <<USDT>>, <<APPROVE>>)}

PipeWeightDocs == {NoFile}

Clis == {Cli(TRUE, FALSE, FALSE, <<>>), Cli(FALSE, TRUE, FALSE, <<b_>>)}

\* main, lines 318-350: the engine from the stores, the watch set, the seen set.
StartMain(c) ==
    /\ cli' = c
    /\ engine' = ScoreEngine(listsCsv, weightsJson, read_prev_transactions(txCsv),
                             read_known_addresses(knownCsv))
    /\ seen' = load_seen_tx_ids(txCsv)
    /\ pc' = IF c.daemon THEN "loop" ELSE "once"
    /\ lastOp' = "start"
    /\ lastBatch' = NoBatch
    /\ lastOut' = <<>>
    /\ lastRet' = <<0, 0>>

\* A process is started on the stores an earlier one left.
Start(c) ==
    /\ pc = "done"
    /\ StartMain(c)
    /\ UNCHANGED <<env, listsCsv, weightsJson, knownCsv, txCsv, pendingCsv, alerts, stx, sres>>
    /\ UNCHANGED filterVars

\* run_once with `batch` what the collector returned.
RunOnce(batch) ==
    /\ pc \in {"loop", "once"}
    /\ lastBatch' = BatchInfo(batch, seen)
    /\ LET watch == load_watch_addresses(cli.monitor_watchlist, listsCsv.watchlist,
                                         cli.monitor_addresses)
           txs == dedup(filter_by_addresses(batch, watch, cli.require_match), seen)
       IN IF txs = <<>>
          THEN /\ lastOut' = <<>>
               /\ lastRet' = <<0, 0>>
               /\ lastOp' = "tick"
               /\ pc' = IF pc = "once" THEN "done" ELSE pc
               /\ UNCHANGED <<knownCsv, txCsv, pendingCsv, alerts, seen, engine>>
          ELSE \E acc \in Loop(txs, Len(txs), engine, env, LoopStart(knownCsv, alerts)) :
                 /\ knownCsv' = acc.known
                 /\ alerts' = acc.alerts
                 /\ IF acc.raised
                    THEN /\ lastOp' = "crash"
                         /\ pc' = "done"
                         /\ UNCHANGED <<txCsv, pendingCsv, seen, engine, lastOut, lastRet>>
                    ELSE /\ txCsv' = write_rows(txCsv, acc.out_rows)
                         /\ pendingCsv' = write_rows(pendingCsv, acc.pendings)
                         /\ seen' = seen \cup
                              ({acc.out_rows[i].tx_id : i \in DOMAIN acc.out_rows} \ {Empty})
                         /\ engine' = [engine EXCEPT !.prev = @ \o acc.out_rows]
                         /\ lastOut' = acc.out_rows
                         /\ lastRet' = <<Len(acc.out_rows), Len(acc.pendings)>>
                         /\ lastOp' = "tick"
                         /\ pc' = IF pc = "once" THEN "done" ELSE pc
    /\ UNCHANGED <<env, cli, listsCsv, weightsJson, stx, sres>>
    /\ UNCHANGED filterVars

\* KeyboardInterrupt while the loop sleeps between two ticks.
Interrupt ==
    /\ pc = "loop"
    /\ pc' = "done"
    /\ lastOp' = "interrupt"
    /\ UNCHANGED <<env, cli, listsCsv, weightsJson, knownCsv, txCsv, pendingCsv, alerts,
                   engine, seen, lastBatch, lastOut, lastRet, stx, sres>>
    /\ UNCHANGED filterVars

\* A fresh installation: ensure_data_files has written the empty stores, then main starts.
Init ==
    /\ env \in PipeEnvs
    /\ cli \in Clis
    /\ listsCsv \in PipeLists
    /\ weightsJson \in PipeWeightDocs
    /\ knownCsv = <<>>
    /\ txCsv = <<>>
    /\ pendingCsv = <<>>
    /\ alerts = <<>>
    /\ engine = ScoreEngine(listsCsv, weightsJson, <<>>, {})
    /\ seen = {}
    /\ pc = IF cli.daemon THEN "loop" ELSE "once"
    /\ lastOp = "start"
    /\ lastBatch = NoBatch
    /\ lastOut = <<>>
    /\ lastRet = <<0, 0>>
    /\ stx = NoTx
    /\ sres = NoRes
    /\ IdleFilter

Next ==
    \/ \E batch \in Batches : RunOnce(batch)
    \/ Interrupt
    \/ \E c \in Clis : Start(c)

Spec == Init /\ [][Next]_vars

-----------------------------------------------------------------------------
(* The pipeline with ticks that are cut short *)

\* run_once has no try/except (lines 223-315) and main catches KeyboardInterrupt only,
\* around the whole loop (lines 364-375): an OSError of write_transactions or
\* append_pending, and a SIGINT delivered while run_once runs, both leave run_once at
\* the point they occur and end the process.

\* The longest batch of a tick that may be cut short, and the most alerts sent before one.
MaxAbortBatch == 2
MaxAlerts == 2

\* The two transactions of the sender b: the first scores 60, the second 5.
AbortTxs == {t \in PipeTxs : t.tx_id \in {<<"1">>, <<"2">>}}

AbortBatches == UNION {[1..n -> AbortTxs] : n \in 0..MaxAbortBatch}

\* Where run_once can be left: in the loop after j transactions ("loop"), at
\* write_transactions before a row is written ("write_transactions"), at append_pending
\* with the transactions written ("append_pending"), before seen.update with both stores
\* written ("seen_update"). An OSError occurs at the two writes only.
AbortPoints(cause) ==
    IF cause = "interrupt"
    THEN {"loop", "write_transactions", "append_pending", "seen_update"}
    ELSE {"write_transactions", "append_pending"}

\* run_once left at `point` by an OSError (cause "io") or a KeyboardInterrupt.
AbortTick(batch) ==
    /\ pc \in {"loop", "once"}
    /\ Len(alerts) < MaxAlerts
    /\ LET watch == load_watch_addresses(cli.monitor_watchlist, listsCsv.watchlist,
                                         cli.monitor_addresses)
           txs == dedup(filter_by_addresses(batch, watch, cli.require_match), seen)
       IN /\ txs # <<>>
          /\ \E cause \in {"io", "interrupt"} : \E point \in AbortPoints(cause) :
             \E j \in (IF point = "loop" THEN 0..(Len(txs) - 1) ELSE {Len(txs)}) :
             \E acc \in Loop(txs, j, engine, env, LoopStart(knownCsv, alerts)) :
                /\ ~acc.raised
                /\ knownCsv' = acc.known
                /\ alerts' = acc.alerts
                /\ txCsv' = IF point \in {"append_pending", "seen_update"}
                            THEN write_rows(txCsv, acc.out_rows) ELSE txCsv
                /\ pendingCsv' = IF point = "seen_update"
                                 THEN write_rows(pendingCsv, acc.pendings) ELSE pendingCsv
                /\ lastOut' = acc.out_rows
                /\ lastOp' = IF cause = "io" THEN "write_failed" ELSE "interrupt"
    /\ lastBatch' = BatchInfo(batch, seen)
    /\ pc' = "done"
    /\ UNCHANGED <<env, cli, listsCsv, weightsJson, engine, seen, lastRet, stx, sres>>
    /\ UNCHANGED filterVars

NextAbort ==
    \/ \E batch \in AbortBatches : RunOnce(batch)
    \/ \E batch \in AbortBatches : AbortTick(batch)
    \/ Interrupt
    \/ \E c \in Clis : Start(c)

SpecAbort == Init /\ [][NextAbort]_vars

-----------------------------------------------------------------------------
(* The pipeline with transactions that carry no identifier *)

\* The senders of the transactions without identifier; no other transaction is theirs.
UnidentifiedSenders == {w_, x_}

\* The two transactions of the sender b, one transaction with an empty tx_id that would
\* score 5, and one with tx_id missing (None).
IdTxs ==
    AbortTxs \cup
    {Tx(Empty, Utc(HM(12, 3)), w_, z_, Amt(20000), USDT, APPROVE),
     Tx(None, Utc(HM(12, 4)), x_, z_, Amt(10), DAI, TRANSFER)}

IdBatches == UNION {[1..n -> IdTxs] : n \in 0..MaxBatch}

NextIds ==
    \/ \E batch \in IdBatches : RunOnce(batch)
    \/ Interrupt
    \/ \E c \in Clis : Start(c)

SpecIds == Init /\ [][NextIds]_vars

-----------------------------------------------------------------------------
(* The pipeline with new_address switched off *)

\* weights.json = {"new_address": 0}
NewAddressOff == [n \in {"new_address"} |-> JInt(0)]

\* A fresh installation, as Init, with that weights.json.
InitOff ==
    /\ env \in PipeEnvs
    /\ cli \in Clis
    /\ listsCsv \in PipeLists
    /\ weightsJson = JsonObject(NewAddressOff)
    /\ knownCsv = <<>>
    /\ txCsv = <<>>
    /\ pendingCsv = <<>>
    /\ alerts = <<>>
    /\ engine = ScoreEngine(listsCsv, weightsJson, <<>>, {})
    /\ seen = {}
    /\ pc = IF cli.daemon THEN "loop" ELSE "once"
    /\ lastOp = "start"
    /\ lastBatch = NoBatch
    /\ lastOut = <<>>
    /\ lastRet = <<0, 0>>
    /\ stx = NoTx
    /\ sres = NoRes
    /\ IdleFilter

NextOff ==
    \/ \E batch \in AbortBatches : RunOnce(batch)
    \/ Interrupt
    \/ \E c \in Clis : Start(c)

SpecOff == InitOff /\ [][NextOff]_vars

-----------------------------------------------------------------------------
(* A scoring session over a long history: the velocity rule *)

\* The longest history a session starts with.
MaxHist == 5

\* History rows: the sender a (also written A) at 12:00 and 12:01, another sender, and a
\* row whose timestamp does not parse.
VelHist ==
    {Hist(a_, Utc(HM(12, 0))), Hist(A_, Naive(HM(12, 1))), Hist(b_, Utc(HM(12, 0))),
     Hist(a_, BadTs)}

\* Transactions of a or b, from just before the history to 11 minutes after its start.
VelTxs ==
    {Tx(<<"t">>, ts, fr, z_, Amt(10), DAI, TRANSFER) :
        ts \in {BadTs, Utc(HM(11, 59)), Utc(HM(12, 0)), Naive(HM(12, 10)),
                Ts(HM(14, 11), TRUE, 120)},
        fr \in {A_, b_}}

InitVelocity ==
    /\ env = DefaultEnv
    /\ listsCsv = Lists(<<>>, <<>>, <<>>, <<>>)
    /\ weightsJson = NoFile
    /\ \E prev \in UNION {[1..n -> VelHist] : n \in 0..MaxHist} :
            engine = ScoreEngine(listsCsv, weightsJson, prev, {a_})
    /\ stx = NoTx
    /\ sres = NoRes
    /\ IdlePipe
    /\ IdleFilter

NextVelocity == ~sres.done /\ \E tx \in VelTxs : ScoreOne(tx)

SpecVelocity == InitVelocity /\ [][NextVelocity]_vars

-----------------------------------------------------------------------------
(* A scoring session with faulty inputs: missing fields, bad environment, bad weights *)

\* weights.json with one value that int() rejects and one well-formed value.
PartlyTextWeights ==
    [n \in {"new_address", "velocity"} |->
        IF n = "new_address" THEN JText ELSE JInt(7)]

FaultWeightDocs ==
    {NoFile, InvalidJson, JsonObject(PartlyTextWeights), JsonObject(ZeroWeights)}

\* Nothing set, and an AMOUNT_THRESHOLD that float() rejects with a velocity rule of one
\* transaction in the default window.
FaultEnvs == {DefaultEnv, Env(EnvBad, Unset, EnvNum(1), Unset)}

\* Transactions with missing sender, recipient, token or method, an amount or a
\* timestamp that does not parse, next to well-formed ones.
FaultTxs ==
    {Tx(<<"t">>, ts, fr, to, am, tok, met) :
        ts \in {BadTs, Utc(HM(3, 0)), Utc(HM(12, 0))},
        fr \in {None, a_, b_, w_},
        to \in {None, z_, x_},
        am \in {Amt(20000), BadAmt},
        tok \in {None, USDT, DAI},
        met \in {None, APPROVE}}

InitFault ==
    /\ env \in FaultEnvs
    /\ listsCsv \in ScoreLists
    /\ weightsJson \in FaultWeightDocs
    /\ \E prev \in ScorePrevs, known \in ScoreKnowns :
            engine = ScoreEngine(listsCsv, weightsJson, prev, known)
    /\ stx = NoTx
    /\ sres = NoRes
    /\ IdlePipe
    /\ IdleFilter

NextFault == ~sres.done /\ \E tx \in FaultTxs : ScoreOne(tx)

SpecFault == InitFault /\ [][NextFault]_vars

-----------------------------------------------------------------------------
(* A filter session: filter_by_addresses applied to a list of transactions *)

\* The longest list handed to the filter.
MaxFilterLen == 3

\* Transactions by (sender, recipient): the monitored address a as sender in either
\* case, as recipient in either case, in neither place, and missing values.
FilterTxs ==
    {Tx(<<"t">>, Utc(HM(12, 0)), p[1], p[2], Amt(10), DAI, TRANSFER) :
        p \in {<<a_, z_>>, <<A_, z_>>, <<b_, A_>>, <<b_, z_>>, <<None, a_>>, <<b_, None>>}}

\* The monitored sets load_watch_addresses can return: lower-cased, possibly empty.
FilterWatches == {{}, {a_}, {w_, z_}}

InitFilter ==
    /\ env = DefaultEnv
    /\ listsCsv = Lists(<<>>, <<>>, <<>>, <<>>)
    /\ weightsJson = NoFile
    /\ engine = ScoreEngine(listsCsv, weightsJson, <<>>, {})
    /\ stx = NoTx
    /\ sres = NoRes
    /\ IdlePipe
    /\ fin \in [txs : UNION {[1..n -> FilterTxs] : n \in 0..MaxFilterLen},
                watch : FilterWatches, require_match : BOOLEAN]
    /\ fout = NoFilterOut

\* out = filter_by_addresses(txs, watch, require_match)
Filter ==
    /\ ~fout.done
    /\ fout' = [done |-> TRUE,
                out |-> filter_by_addresses(fin.txs, fin.watch, fin.require_match)]
    /\ UNCHANGED <<env, listsCsv, weightsJson, engine, stx, sres, fin>>
    /\ UNCHANGED pipeVars

NextFilter == Filter

SpecFilter == InitFilter /\ [][NextFilter]_vars

-----------------------------------------------------------------------------
(* Properties of a scoring session *)

\* A scoring session has returned a result.
Scored == sres.done /\ ~sres.raised

\* |n|
Abs(n) == IF n < 0 THEN -n ELSE n

\* The configured thresholds.
AmountThreshold == get_env_int(env.AMOUNT_THRESHOLD, DefaultAmountThreshold)
VelocityWindow == get_env_int(env.VELOCITY_WINDOW_MIN, DefaultVelocityWindowMin)
VelocityMax == get_env_int(env.VELOCITY_MAX_TX, DefaultVelocityMaxTx)

\* The effective weight table is the default one.
DefaultWeightsInForce == \A n \in RuleNames : engine.weights[n] = JInt(DEFAULT_WEIGHTS[n])

\* An address is in a reference set, compared lower-cased.
InSet(addr, set) == addr # None /\ Lower(addr) \in set

\* The history entries of the engine's context from `sender` (lower-cased) whose instant
\* lies in [ts - window, ts].
WindowEntries(tx) ==
    {i \in DOMAIN engine.ctx.prev_transactions :
        LET r == engine.ctx.prev_transactions[i]
        IN /\ r.timestamp.ok
           /\ r.from_address = Lower(OrEmpty(tx.from_address))
           /\ Instant(tx.timestamp) - VelocityWindow <= Instant(r.timestamp)
           /\ Instant(r.timestamp) <= Instant(tx.timestamp)}

VelocityBreach(tx) == tx.timestamp.ok /\ Cardinality(WindowEntries(tx)) >= VelocityMax

\* C1: for every transaction and weight table, score == max(0, 100 - sum(hits.values())),
\* and so 0 <= score <= 100.
C1_ScoreFormula ==
    Scored =>
        /\ sres.score = Max(0, 100 - SumValues(sres.hits))
        /\ sres.score >= 0
        /\ sres.score <= 100

\* The floor of C1 is at work: the penalties exceed 100 and the score is 0.
C1_Witness == Scored /\ SumValues(sres.hits) > 100 /\ sres.score = 0

\* The sum of the contribution percentages, in tenths of a percent.
PctSum == SumValues(sres.contrib_pct)

\* C6 as stated: whenever the penalty total is > 0, the contribution percentages sum to
\* 100.0 within 0.2.
C6_SumWithinTwoTenths ==
    (Scored /\ sres.penalty_total > 0) => Abs(PctSum - 1000) <= 2

\* C6 amended: whenever the penalty total is > 0, the contribution percentages sum to
\* 100.0 within 0.05 per rule in hits (so within 0.4 for the eight rules).
C6_SumWithinHalfTenthPerHit ==
    (Scored /\ sres.penalty_total > 0) =>
        2 * Abs(PctSum - 1000) <= Cardinality(DOMAIN sres.hits)

\* Seven rules hit and the percentages sum to 100.3.
C6_Witness ==
    Scored /\ sres.penalty_total > 0 /\ Cardinality(DOMAIN sres.hits) = 7 /\ PctSum = 1003

\* The transaction of C7: no list membership, amount below the threshold, UTC hour outside
\* 0..5, a known sender, no sensitive token or method, no velocity breach.
CleanTx(tx) ==
    /\ ~InSet(tx.from_address, engine.ctx.blacklist \cup engine.ctx.watchlist)
    /\ ~InSet(tx.to_address, engine.ctx.blacklist \cup engine.ctx.watchlist)
    /\ tx.amount.ok /\ tx.amount.val < AmountThreshold
    /\ tx.timestamp.ok /\ UtcHour(tx.timestamp) \notin 0..5
    /\ InSet(tx.from_address, engine.ctx.known_addresses)
    /\ tx.token # None /\ Upper(tx.token) \notin {Upper(t) : t \in engine.ctx.sensitive_tokens}
    /\ tx.method # None /\ Upper(tx.method) \notin {Upper(m) : m \in engine.ctx.sensitive_methods}
    /\ ~VelocityBreach(tx)

\* C7: a clean transaction gets score exactly 100, empty hits and an empty reasons list.
C7_CleanScores100 ==
    (Scored /\ CleanTx(stx)) =>
        /\ sres.score = 100
        /\ DOMAIN sres.hits = {}
        /\ sres.reasons = <<>>

\* A clean transaction was scored whose sender is known only after lower-casing, against
\* non-empty lists and a non-empty history.
C7_Witness ==
    /\ Scored /\ CleanTx(stx)
    /\ stx.from_address = A_
    /\ engine.ctx.blacklist # {}
    /\ engine.ctx.prev_transactions # <<>>

\* The transaction of C8: amount 20000, token USDT, method APPROVE, UTC hour 3, a sender
\* that is not known; the context holds USDT and APPROVE as sensitive; default weights.
C8Case(tx) ==
    /\ DefaultWeightsInForce
    /\ usdt \in engine.ctx.sensitive_tokens
    /\ approve \in engine.ctx.sensitive_methods
    /\ tx.amount = Amt(20000)
    /\ tx.token = USDT
    /\ tx.method = APPROVE
    /\ tx.timestamp.ok /\ UtcHour(tx.timestamp) = 3
    /\ tx.from_address # None /\ tx.from_address # Empty
    /\ ~InSet(tx.from_address, engine.ctx.known_addresses)

\* No address of the transaction is on a list and the velocity rule has no breach.
NoListNoVelocity(tx) ==
    /\ ~InSet(tx.from_address, engine.ctx.blacklist \cup engine.ctx.watchlist)
    /\ ~InSet(tx.to_address, engine.ctx.blacklist \cup engine.ctx.watchlist)
    /\ ~VelocityBreach(tx)

C8Hits ==
    [n \in {"high_amount", "unusual_hour", "new_address", "sensitive_token",
            "sensitive_method"} |-> DEFAULT_WEIGHTS[n]]

\* C8: the example transaction fires high_amount, unusual_hour, new_address,
\* sensitive_token and sensitive_method with 25+15+40+15+15 = 110 and gets score 0; these
\* are exactly the hits when no address is listed and there is no velocity breach.
C8_ExampleScoresZero ==
    (Scored /\ C8Case(stx)) =>
        /\ sres.score = 0
        /\ \A n \in DOMAIN C8Hits : n \in DOMAIN sres.hits /\ sres.hits[n] = C8Hits[n]
        /\ NoListNoVelocity(stx) =>
              /\ DOMAIN sres.hits = DOMAIN C8Hits
              /\ sres.penalty_total = 110

\* The example was scored with exactly the five hits.
C8_Witness ==
    /\ Scored /\ C8Case(stx) /\ NoListNoVelocity(stx)
    /\ sres.penalty_total = 110 /\ sres.score = 0

\* C5: the velocity rule fires for a transaction exactly when the history entries of
\* its lower-cased sender with a timestamp in [ts - window, ts], both ends included,
\* number at least the max count (5 entries and 10 minutes by default).
C5_VelocityIffWindowCount ==
    Scored => ((sres.velocity_last_window >= 1) <=> VelocityBreach(stx))

\* Five entries of the sender lie exactly 10 minutes before the transaction, and the
\* rule fired with the default window and max count.
C5_Witness ==
    /\ Scored /\ env = DefaultEnv
    /\ sres.velocity_last_window = 1
    /\ Cardinality(WindowEntries(stx)) = 5
    /\ \A i \in WindowEntries(stx) :
          Instant(engine.ctx.prev_transactions[i].timestamp) = Instant(stx.timestamp) - 10

-----------------------------------------------------------------------------
(* Properties of the pipeline *)

\* The rows a step appended to a store.
Added(old, new) == SubSeq(new, Len(old) + 1, Len(new))

\* C2: a tick scores, persists and alerts nothing whose tx_id was in seen before it; a
\* tick whose batch holds only seen identifiers returns (0, 0) and persists nothing; the
\* seen set never shrinks.
C2_SeenIsDropped ==
    [][/\ seen \subseteq seen'
       /\ lastOp' = "tick" =>
            /\ \A i \in DOMAIN lastOut' : lastOut'[i].tx_id \notin seen
            /\ Added(txCsv, txCsv') = lastOut'
            /\ \A r \in Range(Added(pendingCsv, pendingCsv')) : r.tx_id \notin seen
            /\ \A m \in Range(Added(alerts, alerts')) : m.tx_id \notin seen
            /\ (lastBatch'.size > 0 /\ lastBatch'.replayed = lastBatch'.size) =>
                  /\ lastRet' = <<0, 0>>
                  /\ txCsv' = txCsv
                  /\ pendingCsv' = pendingCsv
                  /\ alerts' = alerts]_vars

\* A tick collected transactions, all of them already seen, and returned (0, 0).
C2_Witness ==
    /\ lastOp = "tick"
    /\ lastBatch.size > 0 /\ lastBatch.replayed = lastBatch.size
    /\ lastOut = <<>> /\ lastRet = <<0, 0>>
    /\ txCsv # <<>>

\* C3: at most one row per identifier is written to the transactions store and to the
\* velocity history, whatever the batches (so score_transaction runs at most once per
\* identifier).
C3_OneRowPerId ==
    /\ \A i, j \in DOMAIN txCsv : txCsv[i].tx_id = txCsv[j].tx_id => i = j
    /\ \A i, j \in DOMAIN engine.prev : engine.prev[i].tx_id = engine.prev[j].tx_id => i = j

\* The entries of a scored history from the sender of `row` inside the window before it.
HistoryInWindow(prev, row) ==
    {i \in DOMAIN prev :
        /\ prev[i].timestamp.ok
        /\ Lower(OrEmpty(prev[i].from_address)) = row.from_address
        /\ Instant(row.timestamp) - VelocityWindow <= Instant(prev[i].timestamp)
        /\ Instant(prev[i].timestamp) <= Instant(row.timestamp)}

\* C4: the transactions scored in earlier ticks are in the history the velocity rule
\* reads: in a tick, the rule fires for a transaction exactly when the scored history
\* before the tick holds at least the max count of entries of its sender in the window.
C4_VelocityCountsEarlierTicks ==
    [][lastOp' = "tick" =>
          \A i \in DOMAIN lastOut' :
              lastOut'[i].timestamp.ok =>
                 ((lastOut'[i].velocity_last_window >= 1)
                     <=> (Cardinality(HistoryInWindow(engine.prev, lastOut'[i])) >= VelocityMax))]_vars

\* No address is stored twice.
KnownOnce == \A i, j \in DOMAIN knownCsv : knownCsv[i] = knownCsv[j] => i = j

\* C9: after run_once, the lower-cased sender of every transaction it scored with a
\* new_address hit is in the known-address store; the store never loses an address and
\* holds each at most once.
C9_LearnedSenderStored ==
    [][/\ Range(knownCsv) \subseteq Range(knownCsv')
       /\ KnownOnce'
       /\ lastOp' = "tick" =>
             \A i \in DOMAIN lastOut' :
                 lastOut'[i].is_new_address = "yes" =>
                     lastOut'[i].from_address \in Range(knownCsv')]_vars

\* C10: in the timed loop, new_address does not fire for a sender that the
\* known-address store already held when the tick began.
C10_LearnedSenderNotNewAgain ==
    [][(pc = "loop" /\ lastOp' = "tick") =>
          \A i \in DOMAIN lastOut' :
              lastOut'[i].is_new_address = "yes" =>
                  lastOut'[i].from_address \notin read_known_addresses(knownCsv)]_vars

\* The rows of a tick whose score is below the alert threshold, in order.
Critical(rows) == SelectSeq(rows, LAMBDA r : r.score < limiar(env))

\* C11: a tick appends to the pending store, and sends an alert for, exactly the rows it
\* scored below the alert threshold; it writes every scored row to the transactions
\* store; it returns (rows persisted, pending rows generated).
C11_PendingIffBelowThreshold ==
    [][lastOp' = "tick" =>
          /\ Added(txCsv, txCsv') = lastOut'
          /\ Added(pendingCsv, pendingCsv') = Critical(lastOut')
          /\ Len(Added(alerts, alerts')) = Len(Critical(lastOut'))
          /\ \A k \in DOMAIN Critical(lastOut') :
                Added(alerts, alerts')[k] = alert_msg(Critical(lastOut')[k], limiar(env))
          /\ lastRet' = <<Len(Added(txCsv, txCsv')), Len(Added(pendingCsv, pendingCsv'))>>]_vars

\* A tick scored two transactions, one below the threshold and one not: both rows are
\* stored, one is pending, and the tick returned (2, 1).
C11_Witness ==
    /\ lastOp = "tick"
    /\ Len(lastOut) = 2 /\ Len(Critical(lastOut)) = 1
    /\ lastRet = <<2, 1>>
    /\ Len(txCsv) >= 2 /\ Len(pendingCsv) >= 1 /\ Len(alerts) >= 1

-----------------------------------------------------------------------------
(* Properties of a filter session *)

\* The positions of the input whose lower-cased sender or recipient is monitored.
Monitored ==
    {i \in DOMAIN fin.txs :
        \/ InSet(fin.txs[i].from_address, fin.watch)
        \/ InSet(fin.txs[i].to_address, fin.watch)}

\* The k-th smallest position of a set of positions.
Nth(k, idx) == CHOOSE i \in idx : Cardinality({j \in idx : j <= i}) = k

\* C12: with require_match active and a non-empty monitored set, the output of
\* filter_by_addresses is the input transactions whose lower-cased sender or recipient
\* is monitored, in input order; otherwise the output is the input.
C12_FilterKeepsMonitored ==
    fout.done =>
        IF fin.require_match /\ fin.watch # {}
        THEN /\ Len(fout.out) = Cardinality(Monitored)
             /\ \A k \in DOMAIN fout.out : fout.out[k] = fin.txs[Nth(k, Monitored)]
        ELSE fout.out = fin.txs

\* The filter dropped the middle one of three transactions and kept the two around it,
\* one matched through its upper-case sender and one through its recipient.
C12_Witness ==
    /\ fout.done /\ fin.require_match /\ fin.watch = {a_}
    /\ Len(fin.txs) = 3 /\ Monitored = {1, 3}
    /\ fin.txs[1].from_address = A_ /\ fin.txs[3].to_address = a_
    /\ fout.out = <<fin.txs[1], fin.txs[3]>>

-----------------------------------------------------------------------------
(* Properties of a scoring session with faulty inputs *)

\* What each rule of ORDER does for the transaction of the session, taken alone.
RuleOutcome(n) == RuleFn(n, stx, engine.ctx, env)

\* The rules that fail internally, and the rules that fire.
Failing == {n \in RuleNames : RuleOutcome(n).exc}
Firing == {n \in RuleNames : ~RuleOutcome(n).exc /\ RuleOutcome(n).fired}

\* Every weight in force is an integer.
IntWeights == \A n \in RuleNames : engine.weights[n].t = "int"

\* The rules of a set whose weight in force is positive, and the sum of their weights.
Paying(S) == {n \in S : engine.weights[n].v > 0}
Penalty(S) == SumOver([n \in RuleNames |-> engine.weights[n].v], Paying(S))

\* C13: when a rule fails internally, score_transaction does not raise; the failing rule
\* adds no hit and no reason, and hits, reasons and score are those of the other rules:
\* each rule that fires is in hits with its weight when the weight is positive, and has
\* its reason recorded.
C13_FailingRuleIsNotFired ==
    (sres.done /\ Failing # {} /\ IntWeights) =>
        /\ ~sres.raised
        /\ DOMAIN sres.hits = Paying(Firing)
        /\ \A n \in DOMAIN sres.hits : sres.hits[n] = engine.weights[n].v
        /\ Range(sres.reasons) = {RuleOutcome(n).reason : n \in Firing}
        /\ Len(sres.reasons) = Cardinality(Firing)
        /\ sres.score = Max(0, 100 - Penalty(Firing))

\* The address rules and the amount rule failed (missing sender, AMOUNT_THRESHOLD that is
\* no number), and new_address still took its 40 points.
C13_Witness ==
    /\ sres.done /\ ~sres.raised /\ IntWeights
    /\ {"blacklist", "watchlist", "high_amount"} \subseteq Failing
    /\ "new_address" \in DOMAIN sres.hits
    /\ sres.score = 100 - SumValues(sres.hits)
    /\ sres.score < 100

\* weights.json is malformed: not valid JSON, or an object with a value that is no
\* integer weight.
Malformed(doc) ==
    \/ doc.kind = "invalid"
    \/ doc.kind = "object" /\ \E n \in DOMAIN doc.map : doc.map[n].t # "int"

\* C14: when weights.json is malformed in any way, the engine's weight of every rule is
\* its default and score_transaction completes without raising.
C14_MalformedOverrideIgnored ==
    (Malformed(weightsJson) /\ sres.done) =>
        /\ \A n \in RuleNames : engine.weights[n] = JInt(DEFAULT_WEIGHTS[n])
        /\ ~sres.raised
        /\ \A n \in DOMAIN sres.hits : sres.hits[n] = DEFAULT_WEIGHTS[n]

\* The weight table of the engine without the keys that name no rule.
KnownKeysOnly == [engine EXCEPT !.weights = [n \in RuleNames |-> engine.weights[n]]]

\* C15: a rule that fires with weight 0 is absent from hits and leaves the score to the
\* other rules, while its reason is recorded; keys of the override that name none of the
\* eight rules change nothing in the result.
C15_ZeroWeightRecordsReasonOnly ==
    Scored =>
        /\ \A n \in Firing :
              engine.weights[n].v = 0 =>
                 /\ n \notin DOMAIN sres.hits
                 /\ RuleOutcome(n).reason \in Range(sres.reasons)
                 /\ sres.score = Max(0, 100 - Penalty(Firing \ {n}))
        /\ DOMAIN sres.hits \subseteq RuleNames
        /\ LET alone == score_transaction(KnownKeysOnly, stx, env)
           IN /\ alone.score = sres.score
              /\ alone.hits = sres.hits
              /\ alone.reasons = sres.reasons
              /\ alone.velocity_last_window = sres.velocity_last_window

\* new_address fired with weight 0 under an override that also names an unknown rule:
\* its reason is recorded, it is not in hits, and the score is what sensitive_token and
\* sensitive_method leave.
C15_Witness ==
    /\ Scored
    /\ "no_such_rule" \in DOMAIN engine.weights
    /\ "new_address" \in Firing /\ engine.weights["new_address"].v = 0
    /\ "new_address" \notin DOMAIN sres.hits
    /\ RuleOutcome("new_address").reason \in Range(sres.reasons)
    /\ DOMAIN sres.hits = {"sensitive_token", "sensitive_method"}
    /\ sres.score = 70

\* The timestamps of the faulty session that parse.
ValidTimestamps == {Utc(HM(3, 0)), Utc(HM(12, 0))}

\* The rules that do not read the timestamp, and the part of hits that is theirs.
TimelessRules == RuleNames \ {"unusual_hour", "velocity"}
Timeless(hits) == [n \in DOMAIN hits \cap TimelessRules |-> hits[n]]

\* C17: for a transaction whose timestamp does not parse, unusual_hour and velocity
\* report not fired without failing, no error reaches the caller, and the other six
\* rules put into hits and score what they put for the same transaction with a
\* timestamp that parses.
C17_BadTimestampSilencesTimeRules ==
    (sres.done /\ ~stx.timestamp.ok /\ IntWeights) =>
        /\ ~sres.raised
        /\ \A n \in {"unusual_hour", "velocity"} :
              /\ ~RuleOutcome(n).exc /\ ~RuleOutcome(n).fired
              /\ n \notin DOMAIN sres.hits
        /\ sres.velocity_last_window = 0
        /\ sres.score = Max(0, 100 - SumValues(Timeless(sres.hits)))
        /\ \A ts \in ValidTimestamps :
              Timeless(score_transaction(engine, [stx EXCEPT !.timestamp = ts], env).hits)
                  = Timeless(sres.hits)

\* A transaction without a parsable timestamp from a sender with history, with a
\* sensitive token: the time rules are silent while two other rules hit, although
\* velocity would fire for the same transaction at 03:00.
C17_Witness ==
    /\ Scored /\ ~stx.timestamp.ok /\ IntWeights
    /\ DOMAIN sres.hits = {"new_address", "sensitive_token"}
    /\ sres.score = 45
    /\ LET at3 == score_transaction(engine, [stx EXCEPT !.timestamp = Utc(HM(3, 0))], env)
       IN {"unusual_hour", "velocity"} \subseteq DOMAIN at3.hits

-----------------------------------------------------------------------------
(* The velocity count *)

\* C16: velocity_last_window, as score_transaction returns it, is the number of history
\* entries of the sender with a timestamp in [ts - window, ts].
C16_VelocityCountReturned ==
    Scored => sres.velocity_last_window = Cardinality(WindowEntries(stx))

-----------------------------------------------------------------------------
(* Properties of ticks that are cut short *)

\* The identifiers of rows.
Ids(rows) == {rows[i].tx_id : i \in DOMAIN rows}

\* C18: a failing write of the transactions or pending store does not abort the tick or
\* end the timed loop: the seen set and the history still receive the scored rows and
\* the loop is ready for its next tick.
C18_WriteFailureDoesNotStopLoop ==
    [][(pc = "loop" /\ lastOp' = "write_failed") =>
          /\ pc' = "loop"
          /\ Ids(lastOut') \subseteq seen'
          /\ engine'.prev = engine.prev \o lastOut']_vars

\* C19: when an interrupt ends the process, no tick is partially applied: the step either
\* changed no store, or wrote every scored row to the transactions store and every
\* critical one to the pending store; and every persisted identifier is in the seen set.
C19_InterruptLeavesNoPartialTick ==
    [][lastOp' = "interrupt" =>
          /\ \/ /\ knownCsv' = knownCsv /\ alerts' = alerts
                /\ txCsv' = txCsv /\ pendingCsv' = pendingCsv
             \/ /\ Added(txCsv, txCsv') = lastOut'
                /\ Added(pendingCsv, pendingCsv') = Critical(lastOut')
          /\ load_seen_tx_ids(txCsv') \subseteq seen']_vars

-----------------------------------------------------------------------------
(* Learning inside one tick *)

\* C20: when a tick scores two or more transactions of one sender that the
\* known-address store did not hold when the tick began, new_address fires for every
\* one of them.
C20_SameTickSendersAllNew ==
    [][lastOp' = "tick" =>
          \A i, j \in DOMAIN lastOut' :
              (/\ i < j
               /\ lastOut'[i].from_address = lastOut'[j].from_address
               /\ lastOut'[i].from_address # Empty
               /\ lastOut'[i].from_address \notin read_known_addresses(knownCsv)) =>
                  /\ lastOut'[i].is_new_address = "yes"
                  /\ lastOut'[j].is_new_address = "yes"]_vars

\* The first tick that scored anything scored two different transactions of one sender
\* and flagged both as new; the store holds the sender once.
C20_Witness ==
    /\ lastOp = "tick"
    /\ txCsv = lastOut /\ Len(lastOut) = 2
    /\ lastOut[1].tx_id # lastOut[2].tx_id
    /\ lastOut[1].from_address = lastOut[2].from_address
    /\ lastOut[1].is_new_address = "yes" /\ lastOut[2].is_new_address = "yes"
    /\ knownCsv = <<lastOut[1].from_address>>

-----------------------------------------------------------------------------
(* The seen set and the transactions store *)

\* C21: after main's start-up load and after every completed run_once, the seen set in
\* memory is the set of identifiers in the transactions store, which is the set a
\* process started on the store would load.
C21_SeenIsStoredIds ==
    lastOp \in {"start", "tick"} => seen = Ids(txCsv)

\* A tick added rows to a store that already held rows of an earlier tick, and the seen
\* set holds the identifiers of both.
C21_Witness ==
    /\ lastOp = "tick"
    /\ lastOut # <<>> /\ Len(txCsv) > Len(lastOut)
    /\ Cardinality(seen) >= 2
    /\ seen = Ids(txCsv)

-----------------------------------------------------------------------------
(* Transactions without identifier *)

\* No row of a list is without identifier or from a sender of unidentified transactions.
AllIdentified(rows) ==
    \A r \in Range(rows) :
        r.tx_id \notin {None, Empty} /\ r.from_address \notin UnidentifiedSenders

\* C22: a collected transaction with an empty or missing tx_id is dropped by every tick:
\* no row is scored, stored or alerted for it, whatever its addresses and amount, and it
\* adds nothing to the seen set, the known-address store or the history; a tick that
\* collected only such transactions changes nothing and returns (0, 0).
C22_UnidentifiedIsDropped ==
    [][lastOp' = "tick" =>
          /\ AllIdentified(lastOut') /\ AllIdentified(txCsv')
          /\ AllIdentified(pendingCsv') /\ AllIdentified(alerts')
          /\ AllIdentified(engine'.prev)
          /\ seen' \cap {None, Empty} = {}
          /\ Range(knownCsv') \cap UnidentifiedSenders = {}
          /\ Len(lastOut') <= lastBatch'.size - lastBatch'.unidentified - lastBatch'.replayed
          /\ lastBatch'.unidentified = lastBatch'.size =>
                /\ lastRet' = <<0, 0>>
                /\ seen' = seen /\ knownCsv' = knownCsv /\ engine' = engine
                /\ txCsv' = txCsv /\ pendingCsv' = pendingCsv /\ alerts' = alerts]_vars

\* A tick collected one new identified transaction next to transactions without
\* identifier, and scored the identified one only.
C22_Witness ==
    /\ lastOp = "tick"
    /\ lastBatch.unidentified >= 1 /\ lastBatch.replayed = 0
    /\ lastBatch.size = lastBatch.unidentified + 1
    /\ Len(lastOut) = 1 /\ lastRet[1] = 1
    /\ AllIdentified(txCsv) /\ txCsv # <<>>

-----------------------------------------------------------------------------
(* new_address with weight 0 *)

\* The reason rule_new_address gives when it fires.
NewAddressReason == <<"Endereco remetente nao conhecido", 0, 0>>

\* C23: with the weight of new_address overridden to 0, a tick records the reason of
\* new_address for every transaction of an unknown sender, but leaves new_address out of
\* hits, writes the row with is_new_address = no and leaves the known-address store as
\* it was.
C23_ZeroWeightLearnsNothing ==
    [][(lastOp' = "tick" /\ weightsJson = JsonObject(NewAddressOff)) =>
          /\ knownCsv' = knownCsv
          /\ \A i \in DOMAIN lastOut' :
                /\ "new_address" \notin DOMAIN lastOut'[i].explain.weights
                /\ lastOut'[i].is_new_address = "no"
                /\ (/\ lastOut'[i].from_address # Empty
                    /\ lastOut'[i].from_address \notin engine.ctx.known_addresses) =>
                       NewAddressReason \in Range(lastOut'[i].reasons)]_vars

\* A tick scored a transaction of the unknown sender b: new_address is its only reason,
\* the score is 100, the row says is_new_address = no and the store is still empty.
C23_Witness ==
    /\ lastOp = "tick" /\ weightsJson = JsonObject(NewAddressOff)
    /\ lastOut # <<>>
    /\ lastOut[1].reasons = <<NewAddressReason>>
    /\ lastOut[1].score = 100
    /\ lastOut[1].is_new_address = "no"
    /\ knownCsv = <<>>

=============================================================================
